---- MODULE Spec2Model ----
(***************************************************************************)
(* Model of packages/eac3/src/eac3-bridge.c: the decoder and encoder       *)
(* sessions of the E-AC-3 bridge, their creation, per-call buffer          *)
(* marshalling and teardown.                                               *)
(*                                                                         *)
(* The libavcodec / libavutil calls are an external collaborator.  Their   *)
(* results (found / not found, allocation success, return codes, the       *)
(* decoded frame, the produced packet) are inputs drawn by the actions;    *)
(* their documented effects on the frame and the packet (receive_* unrefs  *)
(* its argument first, *_free unrefs before freeing) are part of the       *)
(* operators that model the call sites.                                    *)
(*                                                                         *)
(* C arrays are functions over 0..n-1.  A pointer field of the session is  *)
(* a boolean (TRUE = non-NULL).  A dereference of NULL or a write past an  *)
(* allocation is undefined behaviour: the model moves to mode "undefined"  *)
(* and follows the run no further.                                         *)
(***************************************************************************)
EXTENDS Integers, Sequences, FiniteSets, TLC

VARIABLES
    mode,       \* the host's handle: "start" (no create yet), "null" (create
                \* returned NULL), "open" (non-NULL handle), "closed", "undefined"
    kind,       \* "none", "dec" or "enc": which init_* was called
    state,      \* decoder_state / encoder_state: which pointers are non-NULL
    ctx,        \* the AVCodecContext fields the bridge reads or writes
    frame,      \* the scratch AVFrame
    packet,     \* the scratch AVPacket
    heap,       \* every allocation: "none", "live", "freed", "double"
    caller,     \* the caller's output buffer and the three out-parameters
    created,    \* the sample rate and channel count passed to init_*
    last        \* record of the most recent call (its result and accesses)

vars == <<mode, kind, state, ctx, frame, packet, heap, caller, created, last>>

----------------------------------------------------------------------------
(* Bounds of the model *)

MaxCh == 2          \* channel counts 1..MaxCh
MaxSamples == 2     \* samples per channel of a frame, 0..MaxSamples
MaxErr == 2         \* the codec's error codes are -MaxErr..-1
MaxPkt == 2         \* bytes of a packet, 0..MaxPkt

(* Program constants *)

SENTINEL == -1      \* encode_samples: output buffer too small

Rates == {44100, 48000}
CodecIds == {0, 1}
Decoders == {1}     \* ids avcodec_find_decoder knows
Encoders == {1}     \* ids avcodec_find_encoder knows
BitRates == {192000}
\* the <<sample rate, channel count>> pairs the host creates sessions with
Configs == {<<44100, 1>>, <<48000, MaxCh>>}
FrameSize == MaxSamples     \* ctx->frame_size, fixed by the codec when opened
NegCodes == (0 - MaxErr) .. (0 - 1)
RetCodes == NegCodes \cup {0}

OutLen == MaxSamples * MaxCh            \* floats / bytes of the caller's output
InLen == (MaxSamples + 1) * MaxCh       \* floats of the caller's input

Res == {"state", "ctx", "frame", "packet", "framebuf", "pktbuf"}

----------------------------------------------------------------------------
(* Values *)

NoState == [ctx |-> FALSE, frame |-> FALSE, packet |-> FALSE]
NoCtx == [sample_rate |-> 0, channels |-> 0, bit_rate |-> 0, frame_size |-> 0]
EmptyFrame == [nb_samples |-> 0, sample_rate |-> 0, nb_channels |-> 0,
               cap |-> 0, planes |-> << >>, data |-> FALSE]
EmptyPacket == [data |-> "none", size |-> 0]

NoCall == [op |-> "none", ret |-> 0, at |-> 0, in |-> << >>, nf |-> 0, nc |-> 0,
           frate |-> 0, fch |-> 0, rd |-> {}, wr |-> {}, fw |-> {}, fcap |-> 0,
           sub |-> 0 - 1, over |-> "none", psize |-> 0 - 1, cap |-> 0,
           ub |-> "none"]

Call(op, ret, at) == [NoCall EXCEPT !.op = op, !.ret = ret, !.at = at]

Alloc(h, r) == [h EXCEPT ![r] = "live"]
Free(h, r) == [h EXCEPT ![r] = IF @ = "live" THEN "freed" ELSE "double"]
Release(h, r, before, after) == IF before /\ ~after THEN Free(h, r) ELSE h

(* Contents of a decoded planar frame: v(c,i), all different and non-zero. *)
Planes(C, F) ==
    [c \in 0 .. C - 1 |-> [i \in 0 .. F - 1 |-> 100 + 10 * c + i]]

(* Contents of the caller's interleaved input. *)
Input == [k \in 0 .. InLen - 1 |-> 200 + k]

(* Contents of a packet the encoder produced. *)
Bytes == [k \in 0 .. MaxPkt - 1 |-> 300 + k]

----------------------------------------------------------------------------
(* libavutil calls made by the bridge on its scratch holders *)

\* Faulty variant: the packet keeps what it referenced.
PacketUnrefKeeps(pk) == pk

\* av_packet_unref: drops the packet's reference and resets its fields.
av_packet_unref(pk) == EmptyPacket

\* av_frame_unref: drops the frame's references and resets its fields.
av_frame_unref(fr) == EmptyFrame

(* The outcome of one call: the value of every variable the call may change. *)
Outcome(m, cx, fr, pk, h, cl, l) ==
    [mode |-> m, ctx |-> cx, frame |-> fr, packet |-> pk, heap |-> h,
     caller |-> cl, last |-> l]

Env == [malloc : BOOLEAN, ctx : BOOLEAN, open : BOOLEAN, frame : BOOLEAN,
        getbuf : BOOLEAN, packet : BOOLEAN]

----------------------------------------------------------------------------
(* Decoder session *)

\* init_decoder: the session, or NULL.  e gives the outcome of each external
\* allocation and of avcodec_open2.
InitDecoder(codec_id, sample_rate, channels, e) ==
    LET l == Call("init_decoder", 0, 0)
        fail(m, h) == Outcome(m, NoCtx, EmptyFrame, EmptyPacket, h, NoState, l)
        undef(h, what) == Outcome("undefined", NoCtx, EmptyFrame, EmptyPacket, h,
                                  NoState, [l EXCEPT !.ub = what])
        h1 == IF e.malloc THEN Alloc(heap, "state") ELSE heap
        h2 == IF e.ctx THEN Alloc(h1, "ctx") ELSE h1
        h3 == IF e.frame THEN Alloc(h2, "frame") ELSE h2
        h4 == IF e.packet THEN Alloc(h3, "packet") ELSE h3
    IN  IF codec_id \notin Decoders
          THEN fail("null", heap)                     \* no codec: return NULL
        ELSE IF ~e.malloc
          THEN undef(h2, "state->ctx with state NULL")
        ELSE IF ~e.ctx
          THEN undef(h2, "state->ctx->sample_rate with ctx NULL")
        ELSE IF ~e.open
          THEN fail("null", Free(Free(h2, "ctx"), "state"))
        ELSE Outcome("open",
                     [NoCtx EXCEPT !.sample_rate = sample_rate,
                                   !.channels = channels],
                     EmptyFrame, EmptyPacket, h4,
                     [ctx |-> TRUE, frame |-> e.frame, packet |-> e.packet], l)

init_decoder(codec_id, sample_rate, channels, e) ==
    /\ mode = "start"
    /\ LET o == InitDecoder(codec_id, sample_rate, channels, e)
       IN  /\ mode' = o.mode
           /\ ctx' = o.ctx
           /\ frame' = o.frame
           /\ packet' = o.packet
           /\ heap' = o.heap
           /\ state' = o.caller
           /\ last' = o.last
    /\ kind' = "dec"
    /\ created' = [sample_rate |-> sample_rate, channels |-> channels]
    /\ UNCHANGED caller

\* The two loops of decode_packet: planar to interleaved, i outer, ch inner.
\* acc is [buf, wr]: the output buffer and the indices written so far.
RECURSIVE InterleaveLoop(_, _, _, _, _, _)
InterleaveLoop(planes, frames, channels, acc, i, ch) ==
    IF i >= frames THEN acc
    ELSE IF ch >= channels
      THEN InterleaveLoop(planes, frames, channels, acc, i + 1, 0)
    ELSE InterleaveLoop(planes, frames, channels,
                        [buf |-> [acc.buf EXCEPT ![i * channels + ch] = planes[ch][i]],
                         wr |-> acc.wr \cup {i * channels + ch}],
                        i, ch + 1)

\* Faulty variant: the output is written plane after plane.
InterleavePlanar(planes, frames, channels, buf) ==
    [buf |-> [k \in DOMAIN buf |->
                IF k < frames * channels THEN planes[k \div frames][k % frames]
                ELSE buf[k]],
     wr |-> 0 .. frames * channels - 1]

Interleave(planes, frames, channels, buf) ==
    InterleaveLoop(planes, frames, channels, [buf |-> buf, wr |-> {}], 0, 0)

\* Faulty variant: the context's sample rate whatever the frame carries.
SampleRateOfContext(fr, cx) == cx.sample_rate

\* The sample rate decode_packet reports.
SampleRateOf(fr, cx) ==
    IF fr.sample_rate = 0 THEN cx.sample_rate ELSE fr.sample_rate

\* The channel count decode_packet uses and reports.
ChannelsOf(fr, cx) ==
    IF fr.nb_channels = 0 THEN cx.channels ELSE fr.nb_channels

\* decode_packet after a frame was received: the caller's memory afterwards.
DecodeOutput(fr, cx, cl) ==
    LET frames == fr.nb_samples
        channels == ChannelsOf(fr, cx)
        sample_rate == SampleRateOf(fr, cx)
        il == Interleave(fr.planes, frames, channels, cl.out)
    IN  [caller |-> [out |-> il.buf, frames |-> frames,
                     sample_rate |-> sample_rate, channels |-> channels],
         wr |-> il.wr, channels |-> channels]

\* The frame avcodec_receive_frame hands out.  d is the codec's choice of the
\* frame's fields (0 = not set).  A frame whose channel layout is not set has
\* the planes of the context's layout.
DecodedFrame(d, cx) ==
    LET C == IF d.nb_channels = 0 THEN cx.channels ELSE d.nb_channels
    IN  [nb_samples |-> d.nb_samples, sample_rate |-> d.sample_rate,
         nb_channels |-> d.nb_channels, cap |-> d.nb_samples,
         planes |-> Planes(C, d.nb_samples), data |-> TRUE]

Decoded == [nb_samples : 0 .. MaxSamples, sample_rate : {0} \cup Rates,
            nb_channels : 0 .. MaxCh]
NoDecoded == [nb_samples |-> 0, sample_rate |-> 0, nb_channels |-> 0]

\* What the codec does in one decode_packet call: <<r1, r2, d>>, the results
\* of avcodec_send_packet and avcodec_receive_frame and the frame received.
DecodeCases ==
    {<<r1, 0, NoDecoded>> : r1 \in NegCodes}
      \cup {<<0, r2, NoDecoded>> : r2 \in NegCodes}
      \cup {<<0, 0, d>> : d \in Decoded}

\* decode_packet: r1 is avcodec_send_packet's result, r2 avcodec_receive_frame's.
DecodePacket(input_size, r1, r2, d) ==
    LET pk0 == av_packet_unref(packet)
        h1 == Release(heap, "pktbuf", packet.data = "codec", pk0.data = "codec")
        pk1 == [pk0 EXCEPT !.data = "caller", !.size = input_size]
        l == [Call("decode_packet", 0, 0) EXCEPT !.over = pk0.data]
        \* avcodec_receive_frame unrefs the frame before anything else
        h2 == Release(h1, "framebuf", frame.data, FALSE)
        fr1 == DecodedFrame(d, ctx)
        h3 == Alloc(h2, "framebuf")
        o == DecodeOutput(fr1, ctx, caller)
        fr2 == av_frame_unref(fr1)
        h4 == Release(h3, "framebuf", fr1.data, fr2.data)
    IN  IF ~state.packet
          THEN Outcome("undefined", ctx, frame, packet, heap, caller,
                       [l EXCEPT !.ub = "av_packet_unref(NULL)"])
        ELSE IF r1 < 0
          THEN Outcome("open", ctx, frame, pk1, h1, caller,
                       [l EXCEPT !.ret = r1, !.at = 68])
        ELSE IF ~state.frame
          THEN Outcome("undefined", ctx, frame, pk1, h1, caller,
                       [l EXCEPT !.ub = "avcodec_receive_frame(ctx, NULL)"])
        ELSE IF r2 < 0
          THEN Outcome("open", ctx, EmptyFrame, pk1, h2, caller,
                       [l EXCEPT !.ret = r2, !.at = 74])
        ELSE Outcome("open", ctx, fr2, pk1, h4, o.caller,
                     [l EXCEPT !.ret = 0, !.at = 102, !.in = fr1.planes,
                               !.nf = fr1.nb_samples, !.nc = o.channels,
                               !.frate = fr1.sample_rate, !.fch = fr1.nb_channels,
                               !.wr = o.wr])

decode_packet(input_size, r1, r2, d) ==
    /\ mode = "open"
    /\ kind = "dec"
    /\ LET o == DecodePacket(input_size, r1, r2, d)
       IN  /\ mode' = o.mode
           /\ ctx' = o.ctx
           /\ frame' = o.frame
           /\ packet' = o.packet
           /\ heap' = o.heap
           /\ caller' = o.caller
           /\ last' = o.last
    /\ UNCHANGED <<kind, state, created>>

\* flush_decoder: avcodec_flush_buffers when the session and its context exist.
\* It discards what the codec buffers internally, which the model does not
\* hold; nothing the bridge owns changes.
flush_decoder ==
    /\ \/ mode \in {"start", "null"}
       \/ mode = "open" /\ kind = "dec"
    /\ last' = Call("flush_decoder", 0, IF mode = "open" /\ state.ctx THEN 108 ELSE 110)
    /\ UNCHANGED <<mode, kind, state, ctx, frame, packet, heap, caller, created>>

\* close_decoder on a non-NULL session: the heap afterwards.  av_frame_free and
\* av_packet_free unref what the holder references, then free the holder.
CloseDecoderHeap(st, fr, pk, h) ==
    LET h1 == IF st.frame
                THEN Free(Release(h, "framebuf", fr.data, FALSE), "frame") ELSE h
        h2 == IF st.packet
                THEN Free(Release(h1, "pktbuf", pk.data = "codec", FALSE), "packet")
                ELSE h1
        h3 == IF st.ctx THEN Free(h2, "ctx") ELSE h2
    IN  Free(h3, "state")

close_decoder ==
    /\ \/ mode \in {"start", "null"}
       \/ mode = "open" /\ kind = "dec"
    /\ IF mode = "open"
         THEN /\ heap' = CloseDecoderHeap(state, frame, packet, heap)
              /\ mode' = "closed"
              /\ state' = NoState
              /\ ctx' = NoCtx
              /\ frame' = EmptyFrame
              /\ packet' = EmptyPacket
         ELSE UNCHANGED <<heap, mode, state, ctx, frame, packet>>
    /\ last' = Call("close_decoder", 0, 120)
    /\ UNCHANGED <<kind, caller, created>>

----------------------------------------------------------------------------
(* Encoder session *)

\* init_encoder: the session, or NULL.  frame_size is the frame period the
\* codec fixes in avcodec_open2.
InitEncoder(codec_id, sample_rate, channels, bitrate, frame_size, e) ==
    LET l == Call("init_encoder", 0, 0)
        fail(m, h) == Outcome(m, NoCtx, EmptyFrame, EmptyPacket, h, NoState, l)
        undef(h, what) == Outcome("undefined", NoCtx, EmptyFrame, EmptyPacket, h,
                                  NoState, [l EXCEPT !.ub = what])
        h1 == IF e.malloc THEN Alloc(heap, "state") ELSE heap
        h2 == IF e.ctx THEN Alloc(h1, "ctx") ELSE h1
        h3 == IF e.frame THEN Alloc(h2, "frame") ELSE h2
        h4 == IF e.getbuf THEN Alloc(h3, "framebuf") ELSE h3
        h5 == IF e.packet THEN Alloc(h4, "packet") ELSE h4
        fr == [nb_samples |-> frame_size, sample_rate |-> sample_rate,
               nb_channels |-> channels,
               cap |-> IF e.getbuf THEN frame_size ELSE 0,
               planes |-> IF e.getbuf
                            THEN [c \in 0 .. channels - 1 |->
                                    [i \in 0 .. frame_size - 1 |-> 0]]
                            ELSE << >>,
               data |-> e.getbuf]
    IN  IF codec_id \notin Encoders
          THEN fail("null", heap)
        ELSE IF ~e.malloc
          THEN undef(h2, "state->ctx with state NULL")
        ELSE IF ~e.ctx
          THEN undef(h2, "state->ctx->sample_rate with ctx NULL")
        ELSE IF ~e.open
          THEN fail("null", Free(Free(h2, "ctx"), "state"))
        ELSE IF ~e.frame
          THEN undef(h3, "state->frame->nb_samples with frame NULL")
        ELSE Outcome("open",
                     [sample_rate |-> sample_rate, channels |-> channels,
                      bit_rate |-> bitrate, frame_size |-> frame_size],
                     fr, EmptyPacket, h5,
                     [ctx |-> TRUE, frame |-> TRUE, packet |-> e.packet], l)

init_encoder(codec_id, sample_rate, channels, bitrate, frame_size, e) ==
    /\ mode = "start"
    /\ LET o == InitEncoder(codec_id, sample_rate, channels, bitrate, frame_size, e)
       IN  /\ mode' = o.mode
           /\ ctx' = o.ctx
           /\ frame' = o.frame
           /\ packet' = o.packet
           /\ heap' = o.heap
           /\ state' = o.caller
           /\ last' = o.last
    /\ kind' = "enc"
    /\ created' = [sample_rate |-> sample_rate, channels |-> channels]
    /\ UNCHANGED caller

\* The two loops of encode_samples: interleaved to planar, ch outer, i inner.
\* acc is [planes, rd, fw]: the frame's planes, the input indices read and the
\* <<channel, sample>> places written.  A plane holds cap samples; a write at
\* or past cap is recorded in fw and lands outside the plane.
RECURSIVE DeinterleaveLoop(_, _, _, _, _, _, _)
DeinterleaveLoop(input, num_frames, channels, cap, acc, ch, i) ==
    IF ch >= channels THEN acc
    ELSE IF i >= num_frames
      THEN DeinterleaveLoop(input, num_frames, channels, cap, acc, ch + 1, 0)
    ELSE DeinterleaveLoop(input, num_frames, channels, cap,
                          [planes |-> IF i < cap
                                        THEN [acc.planes EXCEPT ![ch][i] =
                                                input[i * channels + ch]]
                                        ELSE acc.planes,
                           rd |-> acc.rd \cup {i * channels + ch},
                           fw |-> acc.fw \cup {<<ch, i>>}],
                          ch, i + 1)

\* Faulty variant: the input is read plane after plane.
DeinterleavePlanar(input, num_frames, channels, fr) ==
    [planes |-> [c \in DOMAIN fr.planes |-> [i \in DOMAIN fr.planes[c] |->
                   IF c < channels /\ i < num_frames
                     THEN input[c * num_frames + i] ELSE fr.planes[c][i]]],
     rd |-> 0 .. num_frames * channels - 1,
     fw |-> (0 .. channels - 1) \X (0 .. num_frames - 1)]

Deinterleave(input, num_frames, channels, fr) ==
    DeinterleaveLoop(input, num_frames, channels, fr.cap,
                     [planes |-> fr.planes, rd |-> {}, fw |-> {}], 0, 0)

memcpy(out, bytes, size) ==
    [buf |-> [k \in DOMAIN out |-> IF k < size THEN bytes[k] ELSE out[k]],
     wr |-> 0 .. size - 1]

\* Faulty variant: the packet is copied before its size is compared.
EncodeOutputCopiesFirst(pk, output_buf_size, out) ==
    LET m == memcpy(out, Bytes, pk.size)
    IN  IF pk.size > output_buf_size
          THEN [ret |-> SENTINEL, at |-> 179, out |-> m.buf, wr |-> m.wr,
                packet |-> pk]
          ELSE [ret |-> pk.size, at |-> 187, out |-> m.buf, wr |-> m.wr,
                packet |-> av_packet_unref(pk)]

\* encode_samples after a packet was received: the result, the caller's
\* output and the scratch packet afterwards.
EncodeOutput(pk, output_buf_size, out) ==
    IF pk.size > output_buf_size
      THEN [ret |-> SENTINEL, at |-> 179, out |-> out, wr |-> {}, packet |-> pk]
      ELSE LET m == memcpy(out, Bytes, pk.size)
           IN  [ret |-> pk.size, at |-> 187, out |-> m.buf, wr |-> m.wr,
                packet |-> av_packet_unref(pk)]

\* What the codec does in one encode_samples call: <<r1, r2, size>>, the
\* results of avcodec_send_frame and avcodec_receive_packet and the size of
\* the packet received.
EncodeCases ==
    {<<r1, 0, 0>> : r1 \in NegCodes}
      \cup {<<0, r2, 0>> : r2 \in NegCodes}
      \cup {<<0, 0, size>> : size \in 1 .. MaxPkt}

EncodeSamples(num_frames, output_buf_size, r1, r2, size) ==
    LET channels == frame.nb_channels
        input == Input
        D == Deinterleave(input, num_frames, channels, frame)
        fr1 == [frame EXCEPT !.planes = D.planes, !.nb_samples = num_frames]
        l == [Call("encode_samples", 0, 0) EXCEPT
                !.in = input, !.nf = num_frames, !.nc = channels,
                !.rd = D.rd, !.fw = D.fw, !.fcap = frame.cap,
                !.cap = output_buf_size]
        ls == [l EXCEPT !.sub = fr1.nb_samples]
        \* avcodec_receive_packet unrefs the packet before anything else
        h1 == Release(heap, "pktbuf", packet.data = "codec", FALSE)
        pk1 == [data |-> "codec", size |-> size]
        h2 == Alloc(h1, "pktbuf")
        o == EncodeOutput(pk1, output_buf_size, caller.out)
        h3 == Release(h2, "pktbuf", pk1.data = "codec", o.packet.data = "codec")
    IN  IF D.fw # {} /\ ~frame.data                 \* extended_data[ch] is NULL
          THEN Outcome("undefined", ctx, frame, packet, heap, caller,
                       [l EXCEPT !.ub = "channel_data[i] with channel_data NULL"])
        ELSE IF \E w \in D.fw : w[2] >= frame.cap   \* write past the plane
          THEN Outcome("undefined", ctx, fr1, packet, heap, caller,
                       [l EXCEPT !.ub = "channel_data[i] past the plane"])
        ELSE IF r1 < 0
          THEN Outcome("open", ctx, fr1, packet, heap, caller,
                       [ls EXCEPT !.ret = r1, !.at = 173])
        ELSE IF ~state.packet
          THEN Outcome("undefined", ctx, fr1, packet, heap, caller,
                       [ls EXCEPT !.ub = "avcodec_receive_packet(ctx, NULL)"])
        ELSE IF r2 < 0
          THEN Outcome("open", ctx, fr1, EmptyPacket, h1, caller,
                       [ls EXCEPT !.ret = r2, !.at = 176])
        ELSE Outcome("open", ctx, fr1, o.packet, h3,
                     [caller EXCEPT !.out = o.out],
                     [ls EXCEPT !.ret = o.ret, !.at = o.at, !.wr = o.wr,
                                !.psize = pk1.size])

encode_samples(num_frames, output_buf_size, r1, r2, size) ==
    /\ mode = "open"
    /\ kind = "enc"
    /\ LET o == EncodeSamples(num_frames, output_buf_size, r1, r2, size)
       IN  /\ mode' = o.mode
           /\ ctx' = o.ctx
           /\ frame' = o.frame
           /\ packet' = o.packet
           /\ heap' = o.heap
           /\ caller' = o.caller
           /\ last' = o.last
    /\ UNCHANGED <<kind, state, created>>

\* Faulty variant: the packet holder is freed without being unreferenced.
CloseEncoderHeapLeaks(st, fr, pk, h) ==
    LET h1 == IF st.frame
                THEN Free(Release(h, "framebuf", fr.data, FALSE), "frame") ELSE h
        h2 == IF st.packet THEN Free(h1, "packet") ELSE h1
        h3 == IF st.ctx THEN Free(h2, "ctx") ELSE h2
    IN  Free(h3, "state")

\* close_encoder on a non-NULL session: the heap afterwards.
CloseEncoderHeap(st, fr, pk, h) ==
    LET h1 == IF st.frame
                THEN Free(Release(h, "framebuf", fr.data, FALSE), "frame") ELSE h
        h2 == IF st.packet
                THEN Free(Release(h1, "pktbuf", pk.data = "codec", FALSE), "packet")
                ELSE h1
        h3 == IF st.ctx THEN Free(h2, "ctx") ELSE h2
    IN  Free(h3, "state")

close_encoder ==
    /\ \/ mode \in {"start", "null"}
       \/ mode = "open" /\ kind = "enc"
    /\ IF mode = "open"
         THEN /\ heap' = CloseEncoderHeap(state, frame, packet, heap)
              /\ mode' = "closed"
              /\ state' = NoState
              /\ ctx' = NoCtx
              /\ frame' = EmptyFrame
              /\ packet' = EmptyPacket
         ELSE UNCHANGED <<heap, mode, state, ctx, frame, packet>>
    /\ last' = Call("close_encoder", 0, 198)
    /\ UNCHANGED <<kind, caller, created>>

----------------------------------------------------------------------------
(* The host: one session, created once, used, destroyed *)

Init ==
    /\ mode = "start"
    /\ kind = "none"
    /\ state = NoState
    /\ ctx = NoCtx
    /\ frame = EmptyFrame
    /\ packet = EmptyPacket
    /\ heap = [r \in Res |-> "none"]
    /\ caller = [out |-> [k \in 0 .. OutLen - 1 |-> 0], frames |-> 0,
                 sample_rate |-> 0, channels |-> 0]
    /\ created = [sample_rate |-> 0, channels |-> 0]
    /\ last = NoCall

Next ==
    \/ \E id \in CodecIds, cfg \in Configs, e \in Env :
          init_decoder(id, cfg[1], cfg[2], e)
    \/ \E c \in DecodeCases : decode_packet(MaxPkt, c[1], c[2], c[3])
    \/ flush_decoder
    \/ close_decoder
    \/ \E id \in CodecIds, cfg \in Configs, br \in BitRates, e \in Env :
          init_encoder(id, cfg[1], cfg[2], br, FrameSize, e)
    \/ \E n \in 0 .. MaxSamples + 1, cap \in {MaxPkt - 1, MaxPkt},
          c \in EncodeCases :
          encode_samples(n, cap, c[1], c[2], c[3])
    \/ close_encoder

Spec == Init /\ [][Next]_vars

----------------------------------------------------------------------------
(* Properties *)

IsInit == last.op \in {"init_decoder", "init_encoder"}
Decoded0 == last.op = "decode_packet" /\ mode = "open" /\ last.ret = 0
Returned(op) == last.op = op /\ mode = "open"
\* the session has everything init_* was to allocate
Complete ==
    /\ state.ctx /\ state.frame /\ state.packet
    /\ kind = "enc" => frame.data
Host == <<mode, state, ctx, frame, packet, heap, caller>>

\* C1: creation is atomic: init_* returns either NULL with no allocation of
\* the call still live, or a session whose context, scratch
\* frame (with its sample storage, for the encoder) and scratch packet are
\* all present.
C1_CreationAtomic ==
    IsInit =>
      /\ mode = "null" => \A r \in Res : heap[r] # "live"
      /\ mode = "open" => Complete

\* C2: destroying a session releases every allocation it owns, each exactly
\* once, whatever calls came before; destroying a NULL handle releases
\* nothing and changes nothing.
C2_DestroyReleasesAll ==
    [][ /\ \A r \in Res : heap'[r] # "double"
        /\ (mode = "open" /\ mode' = "closed") =>
             /\ \A r \in Res : heap'[r] = IF heap[r] = "live" THEN "freed"
                                          ELSE heap[r]
             /\ heap'["state"] = "freed" /\ heap'["ctx"] = "freed"
             /\ state.frame => heap'["frame"] = "freed"
             /\ state.packet => heap'["packet"] = "freed"
        /\ (last'.op \in {"close_decoder", "close_encoder"} /\ mode # "open") =>
             Host' = Host
      ]_vars

C2_Witness ==
    /\ mode = "closed" /\ kind = "enc"
    /\ \A r \in Res : heap[r] = "freed"
    /\ caller.out[0] # 0

\* C3: after decode_packet or encode_samples returns, no field of the session
\* refers to the caller's buffers.
C3_NoCallerReference ==
    (Complete /\ (Returned("decode_packet") \/ Returned("encode_samples"))) =>
      packet.data # "caller"

\* C4: a call that returns a negative value writes nothing to the caller's
\* output buffer and leaves the out-parameters as they were.
C4_ErrorLeavesOutput ==
    [][ ((Returned("decode_packet") \/ Returned("encode_samples"))' /\ last'.ret < 0)
          => caller' = caller /\ last'.wr = {} ]_vars

C4_Witness ==
    /\ Complete
    /\ Returned("encode_samples")
    /\ last.ret = SENTINEL /\ last.psize > last.cap
    /\ caller.out[0] # 0

\* C5: encode_samples returns -1 exactly when the produced packet is larger
\* than the capacity; a codec failure is returned unchanged and is never -1;
\* a packet that fits returns its size.
C5_SentinelIffTooSmall ==
    (Complete /\ Returned("encode_samples")) =>
      /\ last.ret = SENTINEL <=> last.psize > last.cap
      /\ last.at \in {173, 176} => last.ret # SENTINEL
      /\ (last.psize >= 0 /\ last.psize <= last.cap) => last.ret = last.psize

\* C6 as stated: every successful decode reports the sample rate and channel
\* count fixed at creation.
C6_ReportsCreationValues ==
    Decoded0 =>
      /\ caller.sample_rate = created.sample_rate
      /\ caller.channels = created.channels

\* C6 as amended: every successful decode reports the frame's own sample rate
\* and channel count where they are non-zero, and the codec context's value
\* (set by the bridge at creation only) where the frame carries zero.
C6_ReportsFrameOrContext ==
    Decoded0 =>
      /\ caller.sample_rate = IF last.frate # 0 THEN last.frate ELSE ctx.sample_rate
      /\ caller.channels = IF last.fch # 0 THEN last.fch ELSE ctx.channels
      /\ ctx.sample_rate = created.sample_rate
      /\ ctx.channels = created.channels

C6_Witness ==
    /\ Complete
    /\ Decoded0
    /\ last.frate \notin {0, created.sample_rate}
    /\ last.fch = 0
    /\ caller.channels = created.channels

\* C7: after a successful decode of a planar frame of F samples and C
\* channels, output[i*C + c] = v(c,i) for all i < F, c < C, the reported
\* frame count is F, and nothing at index F*C or beyond was written.
C7_InterleaveLaw ==
    Decoded0 =>
      LET F == last.nf
          C == Cardinality(DOMAIN last.in)
      IN  /\ \A i \in 0 .. F - 1, c \in 0 .. C - 1 :
                caller.out[i * C + c] = last.in[c][i]
          /\ caller.frames = F
          /\ last.wr = 0 .. F * C - 1

C7_Witness ==
    /\ Complete
    /\ Decoded0
    /\ last.nf = MaxSamples
    /\ Cardinality(DOMAIN last.in) = MaxCh

\* C8: an encode_samples call with N frames, N no larger than the frame
\* period, reads only input indices below N*C, stores input[i*C + c] at sample
\* i of channel c, and submits the frame with N active samples.
C8_ShortFrameLaw ==
    (Returned("encode_samples") /\ last.nf <= ctx.frame_size) =>
      LET N == last.nf
          C == last.nc
      IN  /\ C = created.channels
          /\ last.rd \subseteq 0 .. N * C - 1
          /\ \A i \in 0 .. N - 1, c \in 0 .. C - 1 :
                frame.planes[c][i] = last.in[i * C + c]
          /\ last.fw = (0 .. C - 1) \X (0 .. N - 1)
          /\ last.sub = N

\* a short frame after a longer one: sample 1 is left from the earlier call
C8_Witness ==
    /\ Complete
    /\ Returned("encode_samples")
    /\ last.nf = 1 /\ last.nc = MaxCh
    /\ frame.planes[0][1] # 0

\* C9 as stated: when encode_samples returns, with any result, its scratch
\* packet references no codec-produced data; when decode_packet returns its
\* scratch frame references no decoded data; a holder is empty when attached.
C9_ScratchCleanOnReturn ==
    Complete =>
      /\ last.over = "none"
      /\ Returned("decode_packet") => ~frame.data
      /\ Returned("encode_samples") => packet.data # "codec"

\* C9 as amended: a holder is empty when new data is attached to it; when
\* decode_packet returns its scratch frame references no decoded data; when
\* encode_samples returns a size or a packet-retrieval error its scratch
\* packet references no codec-produced data.  After -1 for an undersized
\* buffer, and after a later call that fails at frame submission, the packet
\* still references the oversized packet.
C9_ScratchResetDiscipline ==
    /\ last.over = "none"
    /\ Returned("decode_packet") => ~frame.data
    /\ (Returned("encode_samples") /\ last.at \in {176, 187}) => packet.data = "none"
    /\ (Returned("encode_samples") /\ last.at = 179) =>
          packet.data = "codec" /\ heap["pktbuf"] = "live"
    /\ mode = "open" => (packet.data = "codec" <=> heap["pktbuf"] = "live")

C9_Witness ==
    /\ Complete
    /\ Returned("encode_samples")
    /\ last.at = 173
    /\ packet.data = "codec"

\* C10: no encode_samples call writes a sample of the scratch frame at or past
\* the capacity allocated at creation.
C10_FrameWritesInBounds ==
    (last.op = "encode_samples" /\ Complete) =>
      \A w \in last.fw : w[2] < last.fcap

====
